---------------------------- MODULE Spec2Model ----------------------------
(***************************************************************************)
(* A model of advanced_traffic_analyzer.py: the command-line run of main   *)
(* (argument validation, line-by-line parsing, filtering, report) and the  *)
(* classes it is built from (LogRecord, LogParser, LogFilter,              *)
(* TrafficAnalyzer) used directly.                                         *)
(*                                                                         *)
(* A Python str is a sequence of one-character strings.  A Python int is   *)
(* unbounded; it is held as two limbs <<hi, lo>> with value hi*86400 + lo    *)
(* and 0 <= lo < 86400, so that timestamps past the range of TLC's 32-bit   *)
(* integers (and past the range of datetime) can be written.               *)
(***************************************************************************)
EXTENDS Integers, Sequences, FiniteSets

(***************************************************************************)
(* Bounds of the model.                                                    *)
(***************************************************************************)
\* The lines of a log file.
MaxLines == 2
\* The records LogFilter.apply is given.
MaxFiltered == 3
\* The records a TrafficAnalyzer is built over.
MaxAnalyzed == 4
\* The n of get_top_ips(n) and get_top_urls(n).
MaxTop == 3

(***************************************************************************)
(* Python values.                                                          *)
(***************************************************************************)
None == <<"None">>

\* The outcome of a call: a value returned, or an exception raised with its
\* message (the text and the value formatted into it).
Ok(v) == [ok |-> TRUE, val |-> v]

Raise(exc, text, value) == [ok |-> FALSE, exc |-> exc, text |-> text, value |-> value]

\* The base of the two-limb form <<hi, lo>> of a Python int.
Limb == 86400

BigOf(n) == <<n \div Limb, n % Limb>>

BigLe(a, b) == a[1] < b[1] \/ (a[1] = b[1] /\ a[2] <= b[2])

BigLt(a, b) == a[1] < b[1] \/ (a[1] = b[1] /\ a[2] < b[2])

BigAdd(a, b) == <<a[1] + b[1] + ((a[2] + b[2]) \div Limb), (a[2] + b[2]) % Limb>>

BigNeg(a) == IF a[2] = 0 THEN <<0 - a[1], 0>> ELSE <<0 - a[1] - 1, Limb - a[2]>>

BigSub(a, b) == BigAdd(a, BigNeg(b))

\* bool(x) of an int or None, as in `if self.start_time:`.
TruthyInt(x) == x # None /\ x # BigOf(0)

\* bool(s) of a str or None, as in `if status:`.
TruthyStr(s) == s # None /\ s # <<>>

(***************************************************************************)
(* str methods.                                                            *)
(***************************************************************************)
Digits == <<"0", "1", "2", "3", "4", "5", "6", "7", "8", "9">>

LowerCase ==
    <<"a", "b", "c", "d", "e", "f", "g", "h", "i", "j", "k", "l", "m",
      "n", "o", "p", "q", "r", "s", "t", "u", "v", "w", "x", "y", "z">>

UpperCase ==
    <<"A", "B", "C", "D", "E", "F", "G", "H", "I", "J", "K", "L", "M",
      "N", "O", "P", "Q", "R", "S", "T", "U", "V", "W", "X", "Y", "Z">>

IsDigitChar(c) == \E i \in 1..10 : Digits[i] = c

DigitValue(c) == (CHOOSE i \in 1..10 : Digits[i] = c) - 1

IsSpace(c) == c \in {" ", "\t", "\n", "\r"}

\* str.isdigit(): not empty and every character a digit.
IsDigit(s) == Len(s) > 0 /\ \A i \in 1..Len(s) : IsDigitChar(s[i])

UpperChar(c) ==
    IF \E i \in 1..26 : LowerCase[i] = c
    THEN UpperCase[CHOOSE i \in 1..26 : LowerCase[i] = c]
    ELSE c

\* str.upper()
Upper(s) == [i \in 1..Len(s) |-> UpperChar(s[i])]

\* str.startswith(c) for a one-character prefix.
StartsWith(s, c) == Len(s) > 0 /\ s[1] = c

\* c in s
Contains(s, c) == \E i \in 1..Len(s) : s[i] = c

RECURSIVE Strip(_)
\* str.strip(): leading and trailing whitespace removed.
Strip(s) ==
    IF s = <<>> THEN s
    ELSE IF IsSpace(s[1]) THEN Strip(Tail(s))
    ELSE IF IsSpace(s[Len(s)]) THEN Strip(SubSeq(s, 1, Len(s) - 1))
    ELSE s

RECURSIVE Split(_)
\* str.split(): the maximal runs of non-whitespace characters.
Split(s) ==
    IF s = <<>> THEN <<>>
    ELSE IF IsSpace(s[1]) THEN Split(Tail(s))
    ELSE LET stop == IF \E i \in 1..Len(s) : IsSpace(s[i])
                     THEN CHOOSE i \in 1..Len(s) :
                              IsSpace(s[i]) /\ \A j \in 1..(i - 1) : ~IsSpace(s[j])
                     ELSE Len(s) + 1
         IN  <<SubSeq(s, 1, stop - 1)>> \o Split(SubSeq(s, stop, Len(s)))

RECURSIVE SplitOn(_, _)
\* str.split(sep): the pieces between separators, empty pieces kept.
SplitOn(s, sep) ==
    IF ~Contains(s, sep) THEN <<s>>
    ELSE LET k == CHOOSE i \in 1..Len(s) :
                      s[i] = sep /\ \A j \in 1..(i - 1) : s[j] # sep
         IN  <<SubSeq(s, 1, k - 1)>> \o SplitOn(SubSeq(s, k + 1, Len(s)), sep)

RECURSIVE Magnitude(_)
\* The value of a string of digits, most significant first.
Magnitude(s) ==
    IF s = <<>> THEN BigOf(0)
    ELSE LET m == Magnitude(SubSeq(s, 1, Len(s) - 1))
             low == m[2] * 10 + DigitValue(s[Len(s)])
         IN  <<m[1] * 10 + (low \div Limb), low % Limb>>

\* int(s): surrounding whitespace dropped, then an optional sign and one or
\* more digits; ValueError otherwise.
PyInt(s) ==
    LET t == Strip(s)
        signed == Len(t) > 0 /\ t[1] \in {"-", "+"}
        body == IF signed THEN Tail(t) ELSE t
    IN  IF ~IsDigit(body) THEN Raise("ValueError", "invalid literal for int()", s)
        ELSE IF signed /\ t[1] = "-" THEN Ok(BigNeg(Magnitude(body)))
        ELSE Ok(Magnitude(body))

(***************************************************************************)
(* LogRecord                                                               *)
(***************************************************************************)
valid_methods ==
    { <<"G", "E", "T">>, <<"P", "O", "S", "T">>, <<"P", "U", "T">>,
      <<"D", "E", "L", "E", "T", "E">>, <<"P", "A", "T", "C", "H">>,
      <<"H", "E", "A", "D">>, <<"O", "P", "T", "I", "O", "N", "S">> }

\* One turn of the loop over the parts of the address: whether it raises.
BadOctet(part) ==
    \/ ~IsDigit(part)
    \/ ~(BigLe(BigOf(0), PyInt(part).val) /\ BigLe(PyInt(part).val, BigOf(255)))

\* __post_init__ letting a status of 600 pass.
PostInit_Status600(self) ==
    LET parts == SplitOn(self.ip_address, ".")
    IN  IF BigLt(self.timestamp, BigOf(0))
        THEN Raise("ValueError", "Invalid timestamp", self.timestamp)
        ELSE IF Len(parts) # 4
        THEN Raise("ValueError", "Invalid IP format", self.ip_address)
        ELSE IF \E i \in 1..Len(parts) : BadOctet(parts[i])
        THEN Raise("ValueError", "Invalid IP", self.ip_address)
        ELSE IF self.http_method \notin valid_methods
        THEN Raise("ValueError", "Invalid method", self.http_method)
        ELSE IF ~StartsWith(self.url, "/")
        THEN Raise("ValueError", "Invalid URL", self.url)
        ELSE IF ~(BigLe(BigOf(100), self.status_code) /\ BigLe(self.status_code, BigOf(600)))
        THEN Raise("ValueError", "Invalid status", self.status_code)
        ELSE IF BigLt(self.response_size, BigOf(0))
        THEN Raise("ValueError", "Invalid size", self.response_size)
        ELSE Ok(None)

\* __post_init__ checking the method before the address.
PostInit_MethodFirst(self) ==
    LET parts == SplitOn(self.ip_address, ".")
    IN  IF BigLt(self.timestamp, BigOf(0))
        THEN Raise("ValueError", "Invalid timestamp", self.timestamp)
        ELSE IF self.http_method \notin valid_methods
        THEN Raise("ValueError", "Invalid method", self.http_method)
        ELSE IF Len(parts) # 4
        THEN Raise("ValueError", "Invalid IP format", self.ip_address)
        ELSE IF \E i \in 1..Len(parts) : BadOctet(parts[i])
        THEN Raise("ValueError", "Invalid IP", self.ip_address)
        ELSE IF ~StartsWith(self.url, "/")
        THEN Raise("ValueError", "Invalid URL", self.url)
        ELSE IF ~(BigLe(BigOf(100), self.status_code) /\ BigLe(self.status_code, BigOf(599)))
        THEN Raise("ValueError", "Invalid status", self.status_code)
        ELSE IF BigLt(self.response_size, BigOf(0))
        THEN Raise("ValueError", "Invalid size", self.response_size)
        ELSE Ok(None)

\* __post_init__: the first failing check raises, in the order of the code.
PostInit(self) ==
    LET parts == SplitOn(self.ip_address, ".")
    IN  IF BigLt(self.timestamp, BigOf(0))
        THEN Raise("ValueError", "Invalid timestamp", self.timestamp)
        ELSE IF Len(parts) # 4
        THEN Raise("ValueError", "Invalid IP format", self.ip_address)
        ELSE IF \E i \in 1..Len(parts) : BadOctet(parts[i])
        THEN Raise("ValueError", "Invalid IP", self.ip_address)
        ELSE IF self.http_method \notin valid_methods
        THEN Raise("ValueError", "Invalid method", self.http_method)
        ELSE IF ~StartsWith(self.url, "/")
        THEN Raise("ValueError", "Invalid URL", self.url)
        ELSE IF ~(BigLe(BigOf(100), self.status_code) /\ BigLe(self.status_code, BigOf(599)))
        THEN Raise("ValueError", "Invalid status", self.status_code)
        ELSE IF BigLt(self.response_size, BigOf(0))
        THEN Raise("ValueError", "Invalid size", self.response_size)
        ELSE Ok(None)

\* LogRecord(...): the dataclass's __init__ sets the fields, then runs
\* __post_init__; the caller gets the record or the exception.
LogRecord(timestamp, ip_address, http_method, url, status_code, response_size) ==
    LET self == [timestamp |-> timestamp, ip_address |-> ip_address,
                 http_method |-> http_method, url |-> url,
                 status_code |-> status_code, response_size |-> response_size]
    IN  IF PostInit(self).ok THEN Ok(self) ELSE PostInit(self)

(***************************************************************************)
(* LogParser                                                               *)
(***************************************************************************)
\* An entry of parse_errors: (line_number, line, message).
ParseError(line_number, line, text, value) ==
    [line_number |-> line_number, line |-> line, text |-> text, value |-> value]

\* parse_log_line recording the 0-based number of a rejected line.
ParseLogLine_ZeroBased(raw, line_number, errors) ==
    LET line == Strip(raw)
        fields == Split(line)
    IN  IF line = <<>> THEN [ret |-> <<>>, parse_errors |-> errors]
        ELSE IF Len(fields) # 6
        THEN [ret |-> <<>>,
              parse_errors |-> Append(errors,
                  ParseError(line_number - 1, line, "expected 6 fields, got", Len(fields)))]
        ELSE LET ts == PyInt(fields[1])
                 sc == PyInt(fields[5])
                 sz == PyInt(fields[6])
                 made == IF ~ts.ok THEN ts
                         ELSE IF ~sc.ok THEN sc
                         ELSE IF ~sz.ok THEN sz
                         ELSE LogRecord(ts.val, fields[2], Upper(fields[3]),
                                        fields[4], sc.val, sz.val)
             IN  IF made.ok THEN [ret |-> <<made.val>>, parse_errors |-> errors]
                 ELSE [ret |-> <<>>,
                       parse_errors |-> Append(errors,
                           ParseError(line_number - 1, line, made.text, made.value))]

\* parse_log_line: ret is <<>> for a return of None and <<record>> for a
\* record returned; parse_errors is the list after the call.
ParseLogLine(raw, line_number, errors) ==
    LET line == Strip(raw)
        fields == Split(line)
    IN  IF line = <<>> THEN [ret |-> <<>>, parse_errors |-> errors]
        ELSE IF Len(fields) # 6
        THEN [ret |-> <<>>,
              parse_errors |-> Append(errors,
                  ParseError(line_number, line, "expected 6 fields, got", Len(fields)))]
        ELSE LET ts == PyInt(fields[1])
                 sc == PyInt(fields[5])
                 sz == PyInt(fields[6])
                 made == IF ~ts.ok THEN ts
                         ELSE IF ~sc.ok THEN sc
                         ELSE IF ~sz.ok THEN sz
                         ELSE LogRecord(ts.val, fields[2], Upper(fields[3]),
                                        fields[4], sc.val, sz.val)
             IN  IF made.ok THEN [ret |-> <<made.val>>, parse_errors |-> errors]
                 ELSE [ret |-> <<>>,
                       parse_errors |-> Append(errors,
                           ParseError(line_number, line, made.text, made.value))]

(***************************************************************************)
(* LogFilter                                                               *)
(***************************************************************************)
\* __init__: the filter object, or the exception of a status that does not
\* parse.
LogFilter(method, status, start_time, end_time) ==
    LET m == IF TruthyStr(method) THEN Upper(method) ELSE None
        parts == SplitOn(status, "-")
        obj(single, lo, hi) ==
            [method |-> m, start_time |-> start_time, end_time |-> end_time,
             status_single |-> single, status_start |-> lo, status_end |-> hi]
    IN  IF TruthyStr(status)
        THEN IF Contains(status, "-")
             THEN IF Len(parts) # 2
                  THEN Raise("ValueError", "too many values to unpack", status)
                  ELSE IF ~PyInt(parts[1]).ok THEN PyInt(parts[1])
                  ELSE IF ~PyInt(parts[2]).ok THEN PyInt(parts[2])
                  ELSE Ok(obj(None, PyInt(parts[1]).val, PyInt(parts[2]).val))
             ELSE IF ~PyInt(status).ok THEN PyInt(status)
                  ELSE Ok(obj(PyInt(status).val, None, None))
        ELSE Ok(obj(None, None, None))

\* apply with a status range that leaves its upper end out.
Apply_ExclusiveRange(self, recs) ==
    LET by_method ==
            IF TruthyStr(self.method)
            THEN SelectSeq(recs, LAMBDA r : r.http_method = self.method)
            ELSE recs
        by_status ==
            IF self.status_single # None
            THEN SelectSeq(by_method, LAMBDA r : r.status_code = self.status_single)
            ELSE IF self.status_start # None
            THEN SelectSeq(by_method,
                     LAMBDA r : BigLe(self.status_start, r.status_code)
                                /\ BigLt(r.status_code, self.status_end))
            ELSE by_method
        by_start ==
            IF TruthyInt(self.start_time)
            THEN SelectSeq(by_status, LAMBDA r : BigLe(self.start_time, r.timestamp))
            ELSE by_status
        by_end ==
            IF TruthyInt(self.end_time)
            THEN SelectSeq(by_start, LAMBDA r : BigLe(r.timestamp, self.end_time))
            ELSE by_start
    IN  by_end

\* apply that uses the end of the window only beside a start.
Apply_EndNeedsStart(self, recs) ==
    LET by_method ==
            IF TruthyStr(self.method)
            THEN SelectSeq(recs, LAMBDA r : r.http_method = self.method)
            ELSE recs
        by_status ==
            IF self.status_single # None
            THEN SelectSeq(by_method, LAMBDA r : r.status_code = self.status_single)
            ELSE IF self.status_start # None
            THEN SelectSeq(by_method,
                     LAMBDA r : BigLe(self.status_start, r.status_code)
                                /\ BigLe(r.status_code, self.status_end))
            ELSE by_method
        by_start ==
            IF TruthyInt(self.start_time)
            THEN SelectSeq(by_status, LAMBDA r : BigLe(self.start_time, r.timestamp))
            ELSE by_status
        by_end ==
            IF TruthyInt(self.start_time) /\ TruthyInt(self.end_time)
            THEN SelectSeq(by_start, LAMBDA r : BigLe(r.timestamp, self.end_time))
            ELSE by_start
    IN  by_end

\* apply: four passes, each a list comprehension over the result so far.
Apply(self, recs) ==
    LET by_method ==
            IF TruthyStr(self.method)
            THEN SelectSeq(recs, LAMBDA r : r.http_method = self.method)
            ELSE recs
        by_status ==
            IF self.status_single # None
            THEN SelectSeq(by_method, LAMBDA r : r.status_code = self.status_single)
            ELSE IF self.status_start # None
            THEN SelectSeq(by_method,
                     LAMBDA r : BigLe(self.status_start, r.status_code)
                                /\ BigLe(r.status_code, self.status_end))
            ELSE by_method
        by_start ==
            IF TruthyInt(self.start_time)
            THEN SelectSeq(by_status, LAMBDA r : BigLe(self.start_time, r.timestamp))
            ELSE by_status
        by_end ==
            IF TruthyInt(self.end_time)
            THEN SelectSeq(by_start, LAMBDA r : BigLe(r.timestamp, self.end_time))
            ELSE by_start
    IN  by_end

(***************************************************************************)
(* collections.Counter, datetime                                           *)
(***************************************************************************)
Column(recs, field) == [i \in 1..Len(recs) |-> recs[i][field]]

RECURSIVE Counter(_)
\* Counter(keys): the count of each key, the keys in the order they were
\* first seen (a dict keeps insertion order).
Counter(keys) ==
    IF keys = <<>> THEN <<>>
    ELSE LET c == Counter(SubSeq(keys, 1, Len(keys) - 1))
             k == keys[Len(keys)]
         IN  IF \E i \in 1..Len(c) : c[i].key = k
             THEN [i \in 1..Len(c) |->
                      IF c[i].key = k THEN [key |-> k, count |-> c[i].count + 1]
                      ELSE c[i]]
             ELSE Append(c, [key |-> k, count |-> 1])

RECURSIVE SortedByCount_TiesReversed(_)
\* A sort by falling count that turns items of equal count around.
SortedByCount_TiesReversed(items) ==
    IF items = <<>> THEN <<>>
    ELSE LET rest == SortedByCount_TiesReversed(SubSeq(items, 1, Len(items) - 1))
             x == items[Len(items)]
             ahead == SelectSeq(rest, LAMBDA y : y.count > x.count)
             behind == SelectSeq(rest, LAMBDA y : y.count <= x.count)
         IN  ahead \o <<x>> \o behind

RECURSIVE SortedByCount(_)
\* sorted(items, key=count, reverse=True): stable, so items of equal count
\* keep their order.
SortedByCount(items) ==
    IF items = <<>> THEN <<>>
    ELSE LET rest == SortedByCount(SubSeq(items, 1, Len(items) - 1))
             x == items[Len(items)]
             ahead == SelectSeq(rest, LAMBDA y : y.count >= x.count)
             behind == SelectSeq(rest, LAMBDA y : y.count < x.count)
         IN  ahead \o <<x>> \o behind

\* Counter.most_common(n) for an int n: heapq.nlargest(n, items, key=count),
\* which is sorted(items, key=count, reverse=True)[:n].
MostCommon(counter, n) ==
    IF n <= 0 THEN <<>>
    ELSE SubSeq(SortedByCount(counter), 1, IF n < Len(counter) THEN n ELSE Len(counter))

\* a / b of two ints: the quotient, kept exact as num/den.
TrueDiv(a, b) ==
    IF b = 0 THEN Raise("ZeroDivisionError", "division by zero", a)
    ELSE Ok([num |-> a, den |-> b])

\* The last second datetime can hold: 9999-12-31 23:59:59.
MaxDatetime == <<2932896, 86399>>

\* The offsets of local time from UTC a run may be under, in seconds.
UtcOffsets == {BigOf(0 - 18000), BigOf(0), BigOf(19800)}

\* datetime.fromtimestamp(ts).hour under a local time `utcoffset` from UTC:
\* ValueError for a local time past year 9999.  A limb is a day long, so
\* the low limb of the local time is its second of the day.
FromTimestampHour(ts, utcoffset) ==
    LET local == BigAdd(ts, utcoffset)
    IN  IF BigLt(MaxDatetime, local)
        THEN Raise("ValueError", "year is out of range", ts)
        ELSE Ok(local[2] \div 3600)

(***************************************************************************)
(* TrafficAnalyzer                                                         *)
(***************************************************************************)
RECURSIVE SumBig(_)
SumBig(xs) == IF xs = <<>> THEN BigOf(0) ELSE BigAdd(xs[1], SumBig(Tail(xs)))

calculate_basic_stats(recs) ==
    [total_requests |-> Len(recs),
     unique_ips |-> Len(Counter(Column(recs, "ip_address"))),
     total_data |-> SumBig(Column(recs, "response_size"))]

get_top_ips(recs, n) == MostCommon(Counter(Column(recs, "ip_address")), n)

get_top_urls(recs, n) == MostCommon(Counter(Column(recs, "url")), n)

\* get_method_distribution dividing 100 by the total before the loop.
get_method_distribution_Eager(recs) ==
    LET counter == Counter(Column(recs, "http_method"))
        total == Len(recs)
        quotient(i) == TrueDiv(counter[i].count, total)
        scale == TrueDiv(100, total)
    IN  IF ~scale.ok THEN scale
        ELSE Ok([i \in 1..Len(counter) |->
                    [key |-> counter[i].key,
                     value |-> [num |-> quotient(i).val.num * 100,
                                den |-> quotient(i).val.den]]])

\* The dict comprehension divides once per method counted; the first
\* division that raises ends the call.
get_method_distribution(recs) ==
    LET counter == Counter(Column(recs, "http_method"))
        total == Len(recs)
        quotient(i) == TrueDiv(counter[i].count, total)
    IN  IF \E i \in 1..Len(counter) : ~quotient(i).ok
        THEN quotient(1)
        ELSE Ok([i \in 1..Len(counter) |->
                    [key |-> counter[i].key,
                     value |-> [num |-> quotient(i).val.num * 100,
                                den |-> quotient(i).val.den]]])

calculate_error_metrics(recs) ==
    LET within(lo, hi) ==
            SelectSeq(recs, LAMBDA r : BigLe(BigOf(lo), r.status_code)
                                       /\ BigLt(r.status_code, BigOf(hi)))
        success == within(200, 300)
    IN  [success_2xx |-> Len(success),
         errors_4xx |-> Len(within(400, 500)),
         errors_5xx |-> Len(within(500, 600)),
         avg_response_2xx |->
             IF success # <<>>
             THEN [num |-> SumBig(Column(success, "response_size")), den |-> Len(success)]
             ELSE [num |-> BigOf(0), den |-> 1]]

RECURSIVE BigMax(_)
BigMax(xs) ==
    IF Len(xs) = 1 THEN xs[1]
    ELSE LET m == BigMax(Tail(xs)) IN IF BigLt(xs[1], m) THEN m ELSE xs[1]

\* 24 * 60 * 60
DaySeconds == 86400

analyze_last_24h(recs, utcoffset) ==
    IF recs = <<>> THEN Ok([unique_ips |-> 0, requests_per_hour |-> <<>>])
    ELSE LET max_ts == BigMax(Column(recs, "timestamp"))
             cutoff == BigSub(max_ts, BigOf(DaySeconds))
             last_24h == SelectSeq(recs, LAMBDA r : BigLe(cutoff, r.timestamp))
             hour(i) == FromTimestampHour(last_24h[i].timestamp, utcoffset)
         IN  IF \E i \in 1..Len(last_24h) : ~hour(i).ok
             THEN hour(CHOOSE i \in 1..Len(last_24h) :
                          ~hour(i).ok /\ \A j \in 1..(i - 1) : hour(j).ok)
             ELSE Ok([unique_ips |-> Len(Counter(Column(last_24h, "ip_address"))),
                      requests_per_hour |->
                          Counter([i \in 1..Len(last_24h) |-> hour(i).val])])

\* generate_report without the layout of its text: the values it prints,
\* or the exception that ends it.
generate_report(recs, top_n, utcoffset) ==
    LET methods == get_method_distribution(recs)
        last_24h == analyze_last_24h(recs, utcoffset)
    IN  IF ~methods.ok THEN methods
        ELSE IF ~last_24h.ok THEN last_24h
        ELSE Ok([basic |-> calculate_basic_stats(recs),
                 methods |-> methods.val,
                 errors |-> calculate_error_metrics(recs),
                 top_ips |-> get_top_ips(recs, top_n),
                 top_urls |-> get_top_urls(recs, 5),
                 last_24h |-> last_24h.val])

(***************************************************************************)
(* The inputs the model draws from.                                        *)
(***************************************************************************)
\*   \n
LineBlank ==
    <<" ", " ", "\n">>

\* not a valid line\n
LineShort ==
    <<"n", "o", "t", " ", "a", " ", "v", "a", "l", "i", "d", " ", "l",
    "i", "n", "e", "\n">>

\* 5 10.0.0.1 get /a 200 7\n
LineGet ==
    <<"5", " ", "1", "0", ".", "0", ".", "0", ".", "1", " ", "g", "e",
    "t", " ", "/", "a", " ", "2", "0", "0", " ", "7", "\n">>

\* 86405  10.0.0.2 POST /b 404 0\n
LinePost ==
    <<"8", "6", "4", "0", "5", " ", " ", "1", "0", ".", "0", ".", "0",
    ".", "2", " ", "P", "O", "S", "T", " ", "/", "b", " ", "4", "0", "4",
    " ", "0", "\n">>

\* 99999999999999 10.0.0.1 GET /a 200 7\n
LineFarYear ==
    <<"9", "9", "9", "9", "9", "9", "9", "9", "9", "9", "9", "9", "9",
    "9", " ", "1", "0", ".", "0", ".", "0", ".", "1", " ", "G", "E", "T",
    " ", "/", "a", " ", "2", "0", "0", " ", "7", "\n">>

\* -1 10.0.0.1 GET /a 200 7\n
LineBadTimestamp ==
    <<"-", "1", " ", "1", "0", ".", "0", ".", "0", ".", "1", " ", "G",
    "E", "T", " ", "/", "a", " ", "2", "0", "0", " ", "7", "\n">>

\* 5 10.0.1 GET /a 200 7\n
LineBadIpFormat ==
    <<"5", " ", "1", "0", ".", "0", ".", "1", " ", "G", "E", "T", " ",
    "/", "a", " ", "2", "0", "0", " ", "7", "\n">>

\* 5 10.0.0.256 GET /a 200 7\n
LineBadOctet ==
    <<"5", " ", "1", "0", ".", "0", ".", "0", ".", "2", "5", "6", " ",
    "G", "E", "T", " ", "/", "a", " ", "2", "0", "0", " ", "7", "\n">>

\* 5 10.0.0.1 FETCH /a 200 7\n
LineBadMethod ==
    <<"5", " ", "1", "0", ".", "0", ".", "0", ".", "1", " ", "F", "E",
    "T", "C", "H", " ", "/", "a", " ", "2", "0", "0", " ", "7", "\n">>

\* 5 10.0.0.1 GET a 200 7\n
LineBadUrl ==
    <<"5", " ", "1", "0", ".", "0", ".", "0", ".", "1", " ", "G", "E",
    "T", " ", "a", " ", "2", "0", "0", " ", "7", "\n">>

\* 5 10.0.0.1 GET /a 600 7\n
LineBadStatus ==
    <<"5", " ", "1", "0", ".", "0", ".", "0", ".", "1", " ", "G", "E",
    "T", " ", "/", "a", " ", "6", "0", "0", " ", "7", "\n">>

\* 5 10.0.0.1 GET /a 200 -7\n
LineBadSize ==
    <<"5", " ", "1", "0", ".", "0", ".", "0", ".", "1", " ", "G", "E",
    "T", " ", "/", "a", " ", "2", "0", "0", " ", "-", "7", "\n">>

\* 5 10.0.0.1 GET /a 2x0 7
LineNotInt ==
    <<"5", " ", "1", "0", ".", "0", ".", "0", ".", "1", " ", "G", "E",
    "T", " ", "/", "a", " ", "2", "x", "0", " ", "7">>

LinePool ==
    { LineBlank, LineShort, LineGet, LinePost,
      LineFarYear, LineBadTimestamp, LineBadIpFormat, LineBadOctet,
      LineBadMethod, LineBadUrl, LineBadStatus, LineBadSize,
      LineNotInt }

\* '10.0.0.1'
IpA == <<"1", "0", ".", "0", ".", "0", ".", "1">>

\* '10.0.0.2'
IpB == <<"1", "0", ".", "0", ".", "0", ".", "2">>

\* '10.0.0.3'
IpC == <<"1", "0", ".", "0", ".", "0", ".", "3">>

\* '10.0.1'
IpShort == <<"1", "0", ".", "0", ".", "1">>

\* '10.0.0.256'
IpBig == <<"1", "0", ".", "0", ".", "0", ".", "2", "5", "6">>

\* '10.x.1'
IpShortAlpha == <<"1", "0", ".", "x", ".", "1">>

\* '10.0.x.1'
IpAlpha == <<"1", "0", ".", "0", ".", "x", ".", "1">>

\* 'GET'
GET == <<"G", "E", "T">>

\* 'POST'
POST == <<"P", "O", "S", "T">>

\* 'FETCH'
FETCH == <<"F", "E", "T", "C", "H">>

\* 'get'
get == <<"g", "e", "t">>

\* '/a'
UrlA == <<"/", "a">>

\* '/b'
UrlB == <<"/", "b">>

\* 'a'
UrlRelative == <<"a">>

\* '404'
Status404 == <<"4", "0", "4">>

\* '400-499'
Status4xx == <<"4", "0", "0", "-", "4", "9", "9">>

\* '200-404'
Status2xxTo4xx == <<"2", "0", "0", "-", "4", "0", "4">>

\* '4x4'
StatusWord == <<"4", "x", "4">>

\* '500-400'
StatusReversed == <<"5", "0", "0", "-", "4", "0", "0">>

\* '404-'
StatusOpen == <<"4", "0", "4", "-">>

\* '99999999999999', a second of the year 3170843
FarYear == <<"9", "9", "9", "9", "9", "9", "9", "9", "9", "9", "9", "9", "9", "9">>

SeqsUpTo(S, n) == UNION {[1..k -> S] : k \in 0..n}

\* The files read: every sequence of at most MaxLines lines of the pool.
Files == SeqsUpTo(LinePool, MaxLines)

\* The default of --top.
DefaultTop == 3

Args(method, status, start, end, top) ==
    [method |-> method, status |-> status, start |-> start, end |-> end, top |-> top]

\* The command lines run: every time window of the pools, and the other
\* options one at a time.  argparse has already converted --start, --end
\* and --top to int and checked --method against its choices.
ArgsPool ==
    { Args(None, None, s, e, DefaultTop) :
        s \in {None, BigOf(0), BigOf(5)},
        e \in {None, BigOf(0), BigOf(3), BigOf(0 - 1), BigOf(86405)} }
    \cup { Args(GET, None, None, None, 1),
           Args(None, Status404, None, None, DefaultTop),
           Args(POST, Status4xx, BigOf(5), None, 2),
           Args(None, StatusWord, None, None, DefaultTop),
           Args(None, StatusReversed, None, None, DefaultTop),
           Args(None, StatusOpen, None, None, DefaultTop),
           Args(None, None, None, None, 0) }

\* A record as LogRecord builds it from typed values.
Rec(timestamp, ip_address, http_method, url, status_code, response_size) ==
    LogRecord(timestamp, ip_address, http_method, url,
              BigOf(status_code), BigOf(response_size)).val

\* The records LogFilter is applied to.
FilterRecordPool ==
    { Rec(BigOf(0), IpA, GET, UrlA, 200, 7),
      Rec(BigOf(5), IpB, POST, UrlB, 404, 0),
      Rec(BigOf(7), IpA, GET, UrlB, 404, 3),
      Rec(BigOf(5), IpC, GET, UrlA, 500, 7) }

\* The criteria a LogFilter is built with.
Criteria(method, status, start_time, end_time) ==
    [method |-> method, status |-> status, start_time |-> start_time, end_time |-> end_time]

MethodPool == {None, get, POST}

StatusPool == {None, Status404, Status2xxTo4xx}

TimePool == {None, BigOf(0), BigOf(5)}

CriteriaPool ==
    { Criteria(m, s, a, b) : m \in MethodPool, s \in StatusPool, a \in TimePool, b \in TimePool }

\* The dimensions (method, status, start_time, end_time) a criteria record sets.
Given(c) == {f \in DOMAIN c : c[f] # None}

\* The records a TrafficAnalyzer is built over.
AnalyzerRecordPool ==
    { Rec(BigOf(5), IpA, GET, UrlA, 200, 7),
      Rec(BigOf(86405), IpB, POST, UrlB, 404, 0),
      Rec(BigOf(86406), IpC, GET, UrlA, 500, 3),
      Rec(BigOf(90000), IpB, GET, UrlB, 200, 7),
      Rec(PyInt(FarYear).val, IpA, GET, UrlA, 200, 7) }

\* The typed values LogRecord is called with directly.
CandidatePool ==
    [timestamp : {BigOf(0 - 1), BigOf(5)},
     ip_address : {IpA, IpShort, IpBig, IpAlpha, IpShortAlpha},
     http_method : {GET, get, FETCH},
     url : {UrlA, UrlRelative},
     status_code : {BigOf(99), BigOf(100), BigOf(599), BigOf(600)},
     response_size : {BigOf(0 - 7), BigOf(0)}]

(***************************************************************************)
(* The state.                                                              *)
(*   args          the parsed command line                                 *)
(*   file          the lines of the log file                               *)
(*   pc            where main is: "main", "read" (in the loop of           *)
(*                 read_and_parse), "parsed", "filtered", "exit"; "api"    *)
(*                 when the classes are used directly                      *)
(*   line_number   the lines read so far                                   *)
(*   records       LogParser.records; the input of LogFilter.apply         *)
(*   parse_errors  LogParser.parse_errors                                  *)
(*   warnings      the warnings printed, (line number, message)            *)
(*   log_filter    <<>>, or <<f>> for the LogFilter f last built           *)
(*   chain         the criteria applied, in order, to get filtered from    *)
(*                 records                                                 *)
(*   filtered      the result of LogFilter.apply                           *)
(*   analyzer      TrafficAnalyzer.records                                 *)
(*   result        the last call made and what came out of it              *)
(*   outcome       how the run ended, "running" until it does              *)
(***************************************************************************)
VARIABLES args, file, pc, line_number, records, parse_errors, warnings,
          log_filter, chain, filtered, analyzer, result, outcome

vars == <<args, file, pc, line_number, records, parse_errors, warnings,
          log_filter, chain, filtered, analyzer, result, outcome>>

NoArgs == Args(None, None, None, None, DefaultTop)

NoResult == [op |-> "none"]

(***************************************************************************)
(* main                                                                    *)
(***************************************************************************)
Init ==
    /\ args \in ArgsPool
    /\ file \in Files
    /\ pc = "main"
    /\ line_number = 0
    /\ records = <<>>
    /\ parse_errors = <<>>
    /\ warnings = <<>>
    /\ log_filter = <<>>
    /\ chain = <<>>
    /\ filtered = <<>>
    /\ analyzer = <<>>
    /\ result = NoResult
    /\ outcome = "running"

\* The checks of parse_arguments after argparse: the message parser.error
\* is called with, or "" when the arguments are returned.
ParseArgumentsError(a) ==
    LET parts == SplitOn(a.status, "-")
    IN  IF a.top < 1 THEN "--top must be positive"
        ELSE IF TruthyStr(a.status) /\ Contains(a.status, "-")
                /\ (Len(parts) # 2 \/ ~PyInt(parts[1]).ok \/ ~PyInt(parts[2]).ok)
        THEN "invalid status format"
        ELSE IF TruthyStr(a.status) /\ Contains(a.status, "-")
                /\ BigLt(PyInt(parts[2]).val, PyInt(parts[1]).val)
        THEN "invalid status range"
        ELSE IF TruthyStr(a.status) /\ ~Contains(a.status, "-") /\ ~PyInt(a.status).ok
        THEN "invalid status code"
        ELSE IF TruthyInt(a.start) /\ TruthyInt(a.end) /\ BigLt(a.end, a.start)
        THEN "start time cannot be after end time"
        ELSE ""

\* args = parse_arguments(): parser.error prints the message and exits.
ParseArguments ==
    /\ pc = "main"
    /\ IF ParseArgumentsError(args) # ""
       THEN /\ pc' = "exit"
            /\ outcome' = ParseArgumentsError(args)
       ELSE /\ pc' = "read"
            /\ outcome' = outcome
    /\ UNCHANGED <<args, file, line_number, records, parse_errors, warnings,
                   log_filter, chain, filtered, analyzer, result>>

\* open() raises FileNotFoundError or PermissionError: message, sys.exit(1).
OpenFails ==
    /\ pc = "read"
    /\ line_number = 0
    /\ \E e \in {"error: file not found", "error: permission denied"} :
           outcome' = e
    /\ pc' = "exit"
    /\ UNCHANGED <<args, file, line_number, records, parse_errors, warnings,
                   log_filter, chain, filtered, analyzer, result>>

\* One turn of the loop of read_and_parse.
ParseLine ==
    /\ pc = "read"
    /\ line_number < Len(file)
    /\ LET parsed == ParseLogLine(file[line_number + 1], line_number + 1, parse_errors)
       IN  /\ line_number' = line_number + 1
           /\ parse_errors' = parsed.parse_errors
           /\ records' = IF parsed.ret # <<>> THEN records \o parsed.ret ELSE records
    /\ UNCHANGED <<args, file, pc, warnings, log_filter, chain, filtered,
                   analyzer, result, outcome>>

\* The loop ends at the end of the file: the warnings are printed and the
\* records returned to main.
EndOfFile ==
    /\ pc = "read"
    /\ line_number = Len(file)
    /\ warnings' = [i \in 1..Len(parse_errors) |->
                       [line_num |-> parse_errors[i].line_number,
                        text |-> parse_errors[i].text,
                        value |-> parse_errors[i].value]]
    /\ pc' = "parsed"
    /\ UNCHANGED <<args, file, line_number, records, parse_errors, log_filter,
                   chain, filtered, analyzer, result, outcome>>

\* if not records: return 1
NoRecords ==
    /\ pc = "parsed"
    /\ records = <<>>
    /\ pc' = "exit"
    /\ outcome' = "error: no valid records found"
    /\ UNCHANGED <<args, file, line_number, records, parse_errors, warnings,
                   log_filter, chain, filtered, analyzer, result>>

\* log_filter = LogFilter(...); filtered = log_filter.apply(records)
Filter ==
    /\ pc = "parsed"
    /\ records # <<>>
    /\ LET made == LogFilter(args.method, args.status, args.start, args.end)
       IN  IF made.ok
           THEN /\ log_filter' = <<made.val>>
                /\ chain' = <<Criteria(args.method, args.status, args.start, args.end)>>
                /\ filtered' = Apply(made.val, records)
                /\ pc' = "filtered"
                /\ outcome' = outcome
           ELSE /\ pc' = "exit"
                /\ outcome' = "traceback"
                /\ UNCHANGED <<log_filter, chain, filtered>>
    /\ UNCHANGED <<args, file, line_number, records, parse_errors, warnings,
                   analyzer, result>>

\* if not filtered: return 0
NoMatch ==
    /\ pc = "filtered"
    /\ filtered = <<>>
    /\ pc' = "exit"
    /\ outcome' = "no records match filters"
    /\ UNCHANGED <<args, file, line_number, records, parse_errors, warnings,
                   log_filter, chain, filtered, analyzer, result>>

\* analyzer = TrafficAnalyzer(filtered); the time range of the settings;
\* report = analyzer.generate_report(filter_settings, args.top); print.
Report ==
    /\ pc = "filtered"
    /\ filtered # <<>>
    /\ \E utcoffset \in UtcOffsets :
           LET start == IF TruthyInt(args.start)
                        THEN FromTimestampHour(args.start, utcoffset) ELSE Ok(None)
               end == IF TruthyInt(args.end)
                      THEN FromTimestampHour(args.end, utcoffset) ELSE Ok(None)
               out == IF ~start.ok THEN start
                      ELSE IF ~end.ok THEN end
                      ELSE generate_report(filtered, args.top, utcoffset)
           IN  /\ result' = [op |-> "generate_report", utcoffset |-> utcoffset, out |-> out]
               /\ outcome' = IF out.ok THEN "report" ELSE "traceback"
    /\ analyzer' = filtered
    /\ pc' = "exit"
    /\ UNCHANGED <<args, file, line_number, records, parse_errors, warnings,
                   log_filter, chain, filtered>>

Next ==
    \/ ParseArguments
    \/ OpenFails
    \/ ParseLine
    \/ EndOfFile
    \/ NoRecords
    \/ Filter
    \/ NoMatch
    \/ Report

Spec == Init /\ [][Next]_vars

(***************************************************************************)
(* LogRecord built directly from typed values.                             *)
(***************************************************************************)
ApiInit ==
    /\ args = NoArgs
    /\ file = <<>>
    /\ pc = "api"
    /\ line_number = 0
    /\ records = <<>>
    /\ parse_errors = <<>>
    /\ warnings = <<>>
    /\ log_filter = <<>>
    /\ chain = <<>>
    /\ filtered = <<>>
    /\ analyzer = <<>>
    /\ result = NoResult
    /\ outcome = "running"

\* LogRecord(timestamp=..., ...) called once with typed values.
Construct ==
    /\ pc = "api"
    /\ result.op = "none"
    /\ \E c \in CandidatePool :
           result' = [op |-> "LogRecord", args |-> c,
                      out |-> LogRecord(c.timestamp, c.ip_address, c.http_method,
                                        c.url, c.status_code, c.response_size)]
    /\ UNCHANGED <<args, file, pc, line_number, records, parse_errors, warnings,
                   log_filter, chain, filtered, analyzer, outcome>>

ValidatorNext == Construct

ValidatorSpec == ApiInit /\ [][ValidatorNext]_vars

(***************************************************************************)
(* LogFilter used directly.                                                *)
(***************************************************************************)
FilterInit ==
    /\ args = NoArgs
    /\ file = <<>>
    /\ pc = "api"
    /\ line_number = 0
    /\ records \in SeqsUpTo(FilterRecordPool, MaxFiltered)
    /\ parse_errors = <<>>
    /\ warnings = <<>>
    /\ log_filter = <<>>
    /\ chain = <<>>
    /\ filtered = <<>>
    /\ analyzer = <<>>
    /\ result = NoResult
    /\ outcome = "running"

\* LogFilter(method, status, start_time, end_time).apply(recs)
ApplyCriteria(c, recs) ==
    /\ log_filter' = <<LogFilter(c.method, c.status, c.start_time, c.end_time).val>>
    /\ filtered' = Apply(log_filter'[1], recs)
    /\ chain' = Append(chain, c)
    /\ UNCHANGED <<args, file, pc, line_number, records, parse_errors,
                   warnings, analyzer, result, outcome>>

\* One apply of a filter with any criteria to the records.
ApplyAll ==
    /\ pc = "api"
    /\ chain = <<>>
    /\ \E c \in CriteriaPool : ApplyCriteria(c, records)

\* One more apply in a chain of filters of one criterion each, no
\* criterion twice: the first to the records, the others to the result of
\* the one before.
ApplyOne ==
    /\ pc = "api"
    /\ \A i \in 1..Len(chain) : Cardinality(Given(chain[i])) = 1
    /\ \E c \in CriteriaPool :
           /\ Cardinality(Given(c)) = 1
           /\ \A i \in 1..Len(chain) : Given(chain[i]) # Given(c)
           /\ ApplyCriteria(c, IF chain = <<>> THEN records ELSE filtered)

FilterNext == ApplyAll \/ ApplyOne

FilterSpec == FilterInit /\ [][FilterNext]_vars

(***************************************************************************)
(* TrafficAnalyzer used directly.                                          *)
(***************************************************************************)
AnalyzerInit ==
    /\ args = NoArgs
    /\ file = <<>>
    /\ pc = "api"
    /\ line_number = 0
    /\ records = <<>>
    /\ parse_errors = <<>>
    /\ warnings = <<>>
    /\ log_filter = <<>>
    /\ chain = <<>>
    /\ filtered = <<>>
    /\ analyzer \in SeqsUpTo(AnalyzerRecordPool, MaxAnalyzed)
    /\ result = NoResult
    /\ outcome = "running"

CallBasicStats ==
    /\ pc = "api"
    /\ result' = [op |-> "calculate_basic_stats", out |-> calculate_basic_stats(analyzer)]
    /\ UNCHANGED <<args, file, pc, line_number, records, parse_errors,
                   warnings, log_filter, chain, filtered, analyzer, outcome>>

CallTopIps ==
    /\ pc = "api"
    /\ \E n \in 0..MaxTop :
           result' = [op |-> "get_top_ips", n |-> n, out |-> get_top_ips(analyzer, n)]
    /\ UNCHANGED <<args, file, pc, line_number, records, parse_errors,
                   warnings, log_filter, chain, filtered, analyzer, outcome>>

CallTopUrls ==
    /\ pc = "api"
    /\ \E n \in 0..MaxTop :
           result' = [op |-> "get_top_urls", n |-> n, out |-> get_top_urls(analyzer, n)]
    /\ UNCHANGED <<args, file, pc, line_number, records, parse_errors,
                   warnings, log_filter, chain, filtered, analyzer, outcome>>

CallMethodDistribution ==
    /\ pc = "api"
    /\ result' = [op |-> "get_method_distribution",
                  out |-> get_method_distribution(analyzer)]
    /\ UNCHANGED <<args, file, pc, line_number, records, parse_errors,
                   warnings, log_filter, chain, filtered, analyzer, outcome>>

CallErrorMetrics ==
    /\ pc = "api"
    /\ result' = [op |-> "calculate_error_metrics",
                  out |-> calculate_error_metrics(analyzer)]
    /\ UNCHANGED <<args, file, pc, line_number, records, parse_errors,
                   warnings, log_filter, chain, filtered, analyzer, outcome>>

CallLast24h ==
    /\ pc = "api"
    /\ \E utcoffset \in UtcOffsets :
           result' = [op |-> "analyze_last_24h", utcoffset |-> utcoffset,
                      out |-> analyze_last_24h(analyzer, utcoffset)]
    /\ UNCHANGED <<args, file, pc, line_number, records, parse_errors,
                   warnings, log_filter, chain, filtered, analyzer, outcome>>

AnalyzerNext ==
    \/ CallBasicStats
    \/ CallTopIps
    \/ CallTopUrls
    \/ CallMethodDistribution
    \/ CallErrorMetrics
    \/ CallLast24h

AnalyzerSpec == AnalyzerInit /\ [][AnalyzerNext]_vars

(***************************************************************************)
(* What the properties below are stated with.                              *)
(***************************************************************************)
Min(a, b) == IF a < b THEN a ELSE b

\* The k-th smallest member of a set of numbers.
Nth(S, k) == CHOOSE x \in S : Cardinality({y \in S : y < x}) = k - 1

Range(f) == {f[i] : i \in DOMAIN f}

\* How often key occurs in keys, and where first.
Occurrences(keys, key) == Cardinality({i \in 1..Len(keys) : keys[i] = key})

FirstSeen(keys, key) == CHOOSE i \in 1..Len(keys) : keys[i] = key /\ \A j \in 1..(i - 1) : keys[j] # key

IsBlank(raw) == \A i \in 1..Len(raw) : IsSpace(raw[i])

FieldCount(raw) == Len(Split(raw))

AllMethods ==
    { GET, POST, <<"P", "U", "T">>, <<"D", "E", "L", "E", "T", "E">>,
      <<"P", "A", "T", "C", "H">>, <<"H", "E", "A", "D">>,
      <<"O", "P", "T", "I", "O", "N", "S">> }

\* The constraints on the six values of a record, in the order of the
\* specification.
TimestampOk(r) == BigLe(BigOf(0), r.timestamp)

FourSegments(r) == Len(SplitOn(r.ip_address, ".")) = 4

OctetsInRange(r) ==
    \A i \in 1..Len(SplitOn(r.ip_address, ".")) :
        LET part == SplitOn(r.ip_address, ".")[i]
        IN  /\ IsDigit(part)
            /\ BigLe(BigOf(0), Magnitude(part))
            /\ BigLe(Magnitude(part), BigOf(255))

MethodOk(r) == r.http_method \in AllMethods

UrlOk(r) == Len(r.url) >= 1 /\ r.url[1] = "/"

StatusOk(r) == BigLe(BigOf(100), r.status_code) /\ BigLe(r.status_code, BigOf(599))

SizeOk(r) == BigLe(BigOf(0), r.response_size)

ValidRecord(r) ==
    /\ TimestampOk(r)
    /\ FourSegments(r)
    /\ OctetsInRange(r)
    /\ MethodOk(r)
    /\ UrlOk(r)
    /\ StatusOk(r)
    /\ SizeOk(r)

\* The six typed values a line of six fields stands for, when its three
\* numbers are written as integers.
NumbersParse(raw) ==
    /\ FieldCount(raw) = 6
    /\ PyInt(Split(raw)[1]).ok
    /\ PyInt(Split(raw)[5]).ok
    /\ PyInt(Split(raw)[6]).ok

ValuesOf(raw) ==
    [timestamp |-> PyInt(Split(raw)[1]).val,
     ip_address |-> Split(raw)[2],
     http_method |-> Upper(Split(raw)[3]),
     url |-> Split(raw)[4],
     status_code |-> PyInt(Split(raw)[5]).val,
     response_size |-> PyInt(Split(raw)[6]).val]

ValidLine(raw) == NumbersParse(raw) /\ ValidRecord(ValuesOf(raw))

(***************************************************************************)
(* C1.  After the k-th line has been processed, each blank line among the  *)
(* first k has added nothing and every other line exactly one entry: a     *)
(* record, or a parse error with its 1-based line number (a line of n # 6  *)
(* fields the error "expected 6 fields, got n").  Records are in file      *)
(* order, errors in ascending line order, and once a line has been read    *)
(* the run goes on to the end of the file: it is past the loop only with   *)
(* every line read, or with none (the arguments or the file refused).      *)
(***************************************************************************)
NonBlank == {i \in 1..line_number : ~IsBlank(file[i])}

ErrorLines == {parse_errors[j].line_number : j \in 1..Len(parse_errors)}

RecordLines == NonBlank \ ErrorLines

C1_EveryLineOneEntry ==
    /\ pc \in {"main", "read", "parsed", "filtered", "exit"}
    /\ line_number <= Len(file)
    /\ line_number < Len(file) => pc \in {"main", "read"} \/ line_number = 0
    /\ Len(records) + Len(parse_errors) = Cardinality(NonBlank)
    /\ ErrorLines \subseteq NonBlank
    /\ \A i, j \in 1..Len(parse_errors) :
           i < j => parse_errors[i].line_number < parse_errors[j].line_number
    /\ \A i \in NonBlank :
           FieldCount(file[i]) # 6 =>
               \E j \in 1..Len(parse_errors) :
                   /\ parse_errors[j].line_number = i
                   /\ parse_errors[j].text = "expected 6 fields, got"
                   /\ parse_errors[j].value = FieldCount(file[i])
    /\ Len(records) = Cardinality(RecordLines)
    /\ \A j \in 1..Len(records) :
           /\ FieldCount(file[Nth(RecordLines, j)]) = 6
           /\ records[j] = ValuesOf(file[Nth(RecordLines, j)])

\* A file whose first line fails and whose second is parsed all the same.
C1_Witness ==
    /\ pc = "parsed"
    /\ line_number = 2
    /\ Len(parse_errors) = 1
    /\ parse_errors[1].line_number = 1
    /\ parse_errors[1].text = "expected 6 fields, got"
    /\ parse_errors[1].value = 4
    /\ Len(records) = 1
    /\ records[1].ip_address = IpB

(***************************************************************************)
(* C2.  Every record in the parser's list, in the result of apply and in   *)
(* the analyzer's collection meets all the constraints, and the lines read *)
(* that violate one have yielded no record: the records are as many as the *)
(* valid lines read.                                                       *)
(***************************************************************************)
C2_RecordsValid ==
    /\ \A i \in 1..Len(records) : ValidRecord(records[i])
    /\ \A i \in 1..Len(filtered) : ValidRecord(filtered[i])
    /\ \A i \in 1..Len(analyzer) : ValidRecord(analyzer[i])
    /\ Len(records) = Cardinality({i \in 1..line_number : ValidLine(file[i])})

\* A run that reported on one record, the other line having a status of 600.
C2_Witness ==
    /\ outcome = "report"
    /\ Len(analyzer) = 1
    /\ Len(parse_errors) = 1
    /\ parse_errors[1].text = "Invalid status"

(***************************************************************************)
(* C3.  Construction fails with the error of the first constraint violated *)
(* in the order timestamp, address format, octet range, method, url,       *)
(* status, size, whatever else is violated; with none violated it gives    *)
(* the complete record.                                                    *)
(***************************************************************************)
ConstraintsHeld(r) ==
    <<TimestampOk(r), FourSegments(r), OctetsInRange(r), MethodOk(r), UrlOk(r),
      StatusOk(r), SizeOk(r)>>

ConstraintErrors ==
    <<"Invalid timestamp", "Invalid IP format", "Invalid IP", "Invalid method",
      "Invalid URL", "Invalid status", "Invalid size">>

Violated(r) == {k \in 1..7 : ~ConstraintsHeld(r)[k]}

C3_FirstViolationNamed ==
    result.op = "LogRecord" =>
        IF Violated(result.args) = {}
        THEN result.out.ok /\ result.out.val = result.args
        ELSE /\ ~result.out.ok
             /\ result.out.exc = "ValueError"
             /\ result.out.text = ConstraintErrors[Nth(Violated(result.args), 1)]

\* Values that violate the address format, the octets, the method and the
\* status at once: the address format is the one named.
C3_Witness ==
    /\ result.op = "LogRecord"
    /\ {2, 3, 4, 6} \subseteq Violated(result.args)
    /\ 1 \notin Violated(result.args)
    /\ result.out.text = "Invalid IP format"

(***************************************************************************)
(* What a filter's criteria ask of a record, read from the criteria.       *)
(***************************************************************************)
StatusMatches(status, r) ==
    IF Contains(status, "-")
    THEN /\ BigLe(PyInt(SplitOn(status, "-")[1]).val, r.status_code)
         /\ BigLe(r.status_code, PyInt(SplitOn(status, "-")[2]).val)
    ELSE r.status_code = PyInt(status).val

MeetsMethodAndStatus(c, r) ==
    /\ c.method # None => r.http_method = Upper(c.method)
    /\ c.status # None => StatusMatches(c.status, r)

MeetsWindow(c, r) ==
    /\ c.start_time # None => BigLe(c.start_time, r.timestamp)
    /\ c.end_time # None => BigLe(r.timestamp, c.end_time)

(***************************************************************************)
(* C4.  With a method and a status criterion (a value or a range lo-hi),   *)
(* each optional, and no time window, apply returns exactly the records    *)
(* whose method is the uppercased one and whose status is the value or     *)
(* lies in lo..hi, in their order and as often as they occur; with no      *)
(* criterion the result is the input; the input list is never changed.     *)
(***************************************************************************)
C4_Selected ==
    (Len(chain) = 1 /\ chain[1].start_time = None /\ chain[1].end_time = None) =>
        /\ filtered = SelectSeq(records, LAMBDA r : MeetsMethodAndStatus(chain[1], r))
        /\ Given(chain[1]) = {} => filtered = records

C4_MethodAndStatus == []C4_Selected /\ [][records' = records]_vars

\* A lowercase method and a range whose ends both occur: two of three
\* records pass, one of them twice over.
C4_Witness ==
    /\ Len(chain) = 1
    /\ chain[1] = Criteria(get, Status2xxTo4xx, None, None)
    /\ Len(records) = 3
    /\ Len(filtered) = 2
    /\ filtered[1].status_code = BigOf(404)
    /\ filtered[2].status_code = BigOf(200)

(***************************************************************************)
(* C5.  With a start and/or an end given (0 included), every record of the *)
(* result has timestamp >= start and timestamp <= end, and every input     *)
(* record that meets the bounds and the other criteria is in the result.   *)
(***************************************************************************)
C5_WindowKept ==
    Len(chain) = 1 =>
        /\ \A i \in 1..Len(filtered) : MeetsWindow(chain[1], filtered[i])
        /\ \A i \in 1..Len(records) :
               (MeetsMethodAndStatus(chain[1], records[i]) /\ MeetsWindow(chain[1], records[i]))
                   => \E j \in 1..Len(filtered) : filtered[j] = records[i]

(***************************************************************************)
(* C6.  For n >= 1, get_top_ips(n) and get_top_urls(n) return min(n,       *)
(* distinct keys) pairs (key, count), each count the number of records     *)
(* with the key, a higher count first and among equal counts the key seen  *)
(* first; no key left out comes before a key returned in that order.       *)
(***************************************************************************)
Ahead(keys, a, b) ==
    \/ Occurrences(keys, a) > Occurrences(keys, b)
    \/ /\ Occurrences(keys, a) = Occurrences(keys, b)
       /\ FirstSeen(keys, a) < FirstSeen(keys, b)

TopOf(keys, n, out) ==
    /\ Len(out) = Min(n, Cardinality(Range(keys)))
    /\ \A i \in 1..Len(out) :
           /\ out[i].key \in Range(keys)
           /\ out[i].count = Occurrences(keys, out[i].key)
    /\ \A i, j \in 1..Len(out) : i < j => Ahead(keys, out[i].key, out[j].key)
    /\ \A k \in Range(keys) \ {out[i].key : i \in 1..Len(out)} :
           \A i \in 1..Len(out) : Ahead(keys, out[i].key, k)

C6_TopByCountThenFirstSeen ==
    /\ (result.op = "get_top_ips" /\ result.n >= 1) =>
           TopOf(Column(analyzer, "ip_address"), result.n, result.out)
    /\ (result.op = "get_top_urls" /\ result.n >= 1) =>
           TopOf(Column(analyzer, "url"), result.n, result.out)

\* Two addresses with two requests each, the one seen first returned alone.
C6_Witness ==
    /\ result.op = "get_top_ips"
    /\ result.n = 1
    /\ Len(analyzer) = 4
    /\ analyzer[1].ip_address = IpB
    /\ analyzer[4].ip_address = IpB
    /\ analyzer[2].ip_address = IpA
    /\ analyzer[3].ip_address = IpA
    /\ result.out = <<[key |-> IpB, count |-> 2]>>

(***************************************************************************)
(* C7.  analyze_last_24h does not fail.  On an empty collection it gives   *)
(* unique_ips = 0 and no hours; otherwise, with the window the records of  *)
(* timestamp >= newest - 86400, unique_ips is the number of addresses in   *)
(* the window, every hour is in 0..23 with a count >= 1, and the counts    *)
(* sum to the size of the window.                                          *)
(***************************************************************************)
RECURSIVE SumCounts(_)
SumCounts(items) == IF items = <<>> THEN 0 ELSE items[1].count + SumCounts(Tail(items))

Newest(recs) ==
    CHOOSE t \in Range(Column(recs, "timestamp")) :
        \A u \in Range(Column(recs, "timestamp")) : BigLe(u, t)

Window(recs) ==
    SelectSeq(recs, LAMBDA r : BigLe(BigSub(Newest(recs), BigOf(86400)), r.timestamp))

C7_WindowCounted(out) ==
    IF analyzer = <<>>
    THEN out.unique_ips = 0 /\ out.requests_per_hour = <<>>
    ELSE /\ out.unique_ips = Cardinality(Range(Column(Window(analyzer), "ip_address")))
         /\ \A i \in 1..Len(out.requests_per_hour) :
                /\ out.requests_per_hour[i].key \in 0..23
                /\ out.requests_per_hour[i].count >= 1
         /\ SumCounts(out.requests_per_hour) = Len(Window(analyzer))

C7_Last24hNeverFails ==
    result.op = "analyze_last_24h" =>
        /\ result.out.ok
        /\ C7_WindowCounted(result.out.val)

(***************************************************************************)
(* C8.  get_method_distribution does not fail.  On an empty collection it  *)
(* gives an empty mapping; otherwise its keys are the methods present,     *)
(* each with 100 * count / total, and the values sum to 100.               *)
(***************************************************************************)
RECURSIVE SumNum(_)
SumNum(items) == IF items = <<>> THEN 0 ELSE items[1].value.num + SumNum(Tail(items))

C8_Distribution ==
    result.op = "get_method_distribution" =>
        /\ result.out.ok
        /\ analyzer = <<>> => result.out.val = <<>>
        /\ Len(analyzer) > 0 =>
               LET d == result.out.val
                   methods == Column(analyzer, "http_method")
               IN  /\ {d[i].key : i \in 1..Len(d)} = Range(methods)
                   /\ Len(d) = Cardinality(Range(methods))
                   /\ \A i \in 1..Len(d) :
                          /\ d[i].value.den = Len(analyzer)
                          /\ d[i].value.num = 100 * Occurrences(methods, d[i].key)
                   /\ SumNum(d) = 100 * Len(analyzer)

\* The call on an empty collection: an empty mapping, nothing raised.
C8_Witness ==
    /\ result.op = "get_method_distribution"
    /\ analyzer = <<>>
    /\ result.out.ok
    /\ result.out.val = <<>>

(***************************************************************************)
(* C9.  Filters of one criterion each, applied one after the other in any  *)
(* order, give the records that one filter with all those criteria gives.  *)
(***************************************************************************)
Pick(field) ==
    IF \E i \in 1..Len(chain) : chain[i][field] # None
    THEN chain[CHOOSE i \in 1..Len(chain) : chain[i][field] # None][field]
    ELSE None

C9_OneByOneAsTogether ==
    (Len(chain) >= 1 /\ \A i \in 1..Len(chain) : Cardinality(Given(chain[i])) = 1) =>
        filtered = Apply(LogFilter(Pick("method"), Pick("status"),
                                   Pick("start_time"), Pick("end_time")).val,
                         records)

\* The end of the window applied first, then the other three: some records
\* pass and some do not.
C9_Witness ==
    /\ Len(chain) = 4
    /\ chain[1].end_time = BigOf(5)
    /\ chain[4].method = get
    /\ \A i \in 1..4 : Cardinality(Given(chain[i])) = 1
    /\ Len(filtered) >= 1
    /\ Len(filtered) < Len(records)

(***************************************************************************)
(* C10.  A run given a start after its end (either of them may be 0) is    *)
(* refused before LogFilter.apply: it builds no filter, applies none and   *)
(* makes no report.                                                        *)
(***************************************************************************)
C10_StartAfterEndRefused ==
    (args.start # None /\ args.end # None /\ BigLt(args.end, args.start)) =>
        /\ log_filter = <<>>
        /\ pc # "filtered"
        /\ outcome \notin {"report", "traceback", "no records match filters"}

=============================================================================
